---- MODULE Spec2Model ----
(***************************************************************************)
(* A model of ml_real_state.py: the three train/test splitters, the        *)
(* income_cat binning, the median imputer's fit/transform protocol and the *)
(* CombinedAttributesAdder transformer.                                    *)
(*                                                                         *)
(* Numbers.  A ratio is the exact fraction num / RatioDen (the script's    *)
(* 0.2 is 1/5); len(data) * test_ratio is computed exactly, so the         *)
(* rounding of a binary float product is not modelled.  A row of a table   *)
(* is a record carrying its index label, as a DataFrame row does.          *)
(***************************************************************************)
EXTENDS Integers, Sequences, FiniteSets

\* ------------------------------------------------------------- bounds
\* Largest table handed to split_train_test / split_train_test_by_id.
MaxRows == 4
\* Largest table handed to the stratified split.
MaxStratRows == 6
\* Largest table of the rerun-after-change scenario of the hash split.
MaxHashRows == 3
\* Ratios are the fractions 0/RatioDen .. RatioDen/RatioDen.
RatioDen == 5
\* Most rows of one stratum, where only the strata's sizes are followed.
MaxStratumCount == 14
\* Longest median_income column binned, and its largest value, in halves.
MaxCutRows == 2
MaxIncome == 14
\* Longest column handed to the imputer, and its largest value.
MaxImputeRows == 2
MaxImputeValue == 3
\* Most rows of the array handed to the CombinedAttributesAdder.
MaxAdderRows == 2

\* ---------------------------------------------------- program constants
\* np.nan: a missing value, and pd.cut's "no label".  Every other number
\* that can stand where NaN can is 0 or more.
NaN == -1
\* rooms_ix, bedroom_ix, population_ix, households_ix = 3, 4, 5, 6
rooms_ix == 3
bedroom_ix == 4
population_ix == 5
households_ix == 6
\* StratifiedShuffleSplit(test_size=0.2): the fraction 1/5.
TestSizeNum == 1
TestSizeDen == 5
\* The identifier values the id column is drawn from.
Ids == {0, 1, 2, 5}
\* The income_cat labels the strata column is drawn from.
Cats == {1, 2}
\* The strata, where only the strata's sizes are followed.
Strata == {1, 2, 3}

VARIABLES
  data,              \* the table handed to the last split call
  test_ratio,        \* its ratio, as the numerator over RatioDen
  strategy,          \* which split ran last, or how it ended
  shuffled_indices,  \* the permutation split_train_test drew
  train_set,         \* the train table of the last split
  test_set,          \* the test table of the last split
  class_counts,      \* rows per stratum of the table being stratified
  n_i,               \* train rows allotted to each stratum
  t_i,               \* test rows allotted to each stratum
  allotted,          \* "none", "done" or "ValueError"
  median_income,     \* the column handed to pd.cut
  income_cat,        \* the labels pd.cut gave it
  statistics_,       \* the imputer's learned medians, one per column; <<>> before fit
  imputer_call,      \* the imputer's last call, or how it ended
  housing_num,       \* the column handed to the imputer's last call
  X,                 \* what the imputer's last transform returned
  add_bedrooms_per_room,  \* the CombinedAttributesAdder's hyperparameter
  fit_called,        \* whether the adder's fit has been called
  adder_call,        \* the adder's last call, or how it ended
  housing_values,    \* the array handed to the adder: [dtype, rows]
  housing_extra_attribs   \* the array its transform returned

splitVars == <<data, test_ratio, strategy, shuffled_indices, train_set, test_set>>
countVars == <<class_counts, n_i, t_i, allotted>>
cutVars   == <<median_income, income_cat>>
impVars   == <<statistics_, imputer_call, housing_num, X>>
addVars   == <<add_bedrooms_per_room, fit_called, adder_call, housing_values,
               housing_extra_attribs>>

vars == <<splitVars, countVars, cutVars, impVars, addVars>>

\* ------------------------------------------------------------ helpers
Range(s) == {s[i] : i \in 1..Len(s)}

RECURSIVE Orderings(_)
\* Every arrangement of the finite set S as a sequence.
Orderings(S) ==
  IF S = {} THEN {<<>>}
  ELSE UNION {{<<x>> \o s : s \in Orderings(S \ {x})} : x \in S}

\* np.random.permutation(n): any arrangement of 0 .. n-1.
permutation(n) == Orderings(0..(n - 1))

\* data.iloc[positions]: the rows at the 0-based positions, in that order.
Iloc(tbl, positions) == [k \in 1..Len(positions) |-> tbl[positions[k] + 1]]

\* data.loc[mask]: the rows whose mask entry is TRUE, in table order.
\* LocMaskFrom is the part from row k on.
RECURSIVE LocMaskFrom(_, _, _)
LocMaskFrom(tbl, mask, k) ==
  IF k > Len(tbl) THEN <<>>
  ELSE (IF mask[tbl[k].index] THEN <<tbl[k]>> ELSE <<>>)
         \o LocMaskFrom(tbl, mask, k + 1)

LocMask(tbl, mask) == LocMaskFrom(tbl, mask, 1)

\* The index labels of a table.
IndexSet(tbl) == {tbl[i].index : i \in 1..Len(tbl)}

\* A table with a RangeIndex, an id column and an income_cat column.
MkTable(ids, cats) ==
  [i \in 1..Len(ids) |-> [index |-> i - 1, id |-> ids[i], income_cat |-> cats[i]]]

SeqsUpTo(S, n) == UNION {[1..k -> S] : k \in 0..n}

\* --------------------------------------------------------- random split
split_train_test_offbyone(tbl, ratio, shuffled) ==
  LET test_set_size == (Len(tbl) * ratio) \div RatioDen
      test_indices  == SubSeq(shuffled, 1, test_set_size)
      train_indices == SubSeq(shuffled, test_set_size + 2, Len(shuffled))
  IN  [train |-> Iloc(tbl, train_indices), test |-> Iloc(tbl, test_indices)]

split_train_test_ceil(tbl, ratio, shuffled) ==
  LET test_set_size == (Len(tbl) * ratio + RatioDen - 1) \div RatioDen
      test_indices  == SubSeq(shuffled, 1, test_set_size)
      train_indices == SubSeq(shuffled, test_set_size + 1, Len(shuffled))
  IN  [train |-> Iloc(tbl, train_indices), test |-> Iloc(tbl, test_indices)]

\* split_train_test(data, test_ratio), with the permutation it drew.
split_train_test(tbl, ratio, shuffled) ==
  LET test_set_size == (Len(tbl) * ratio) \div RatioDen
      test_indices  == SubSeq(shuffled, 1, test_set_size)
      train_indices == SubSeq(shuffled, test_set_size + 1, Len(shuffled))
  IN  [train |-> Iloc(tbl, train_indices), test |-> Iloc(tbl, test_indices)]

\* ------------------------------------------------------------- crc32
\* A 32-bit word is held as its two 16-bit halves [hi, lo]: the whole value
\* does not fit a 32-bit signed integer.
RECURSIVE XorBits(_, _, _)
\* a ^ b on the low n bits.
XorBits(a, b, n) ==
  IF n = 0 THEN 0
  ELSE ((a + b) % 2) + 2 * XorBits(a \div 2, b \div 2, n - 1)

Xor32(x, y) == [hi |-> XorBits(x.hi, y.hi, 16), lo |-> XorBits(x.lo, y.lo, 16)]
\* x >> 1
Shr1(x) == [hi |-> x.hi \div 2, lo |-> (x.lo \div 2) + 32768 * (x.hi % 2)]
\* The reflected CRC-32 polynomial 0xEDB88320.
Poly == [hi |-> 60856, lo |-> 33568]
\* 0xFFFFFFFF
Ones32 == [hi |-> 65535, lo |-> 65535]

\* One round: crc = (crc >> 1) ^ (POLY if crc & 1 else 0).
CrcRound(crc) ==
  IF crc.lo % 2 = 1 THEN Xor32(Shr1(crc), Poly) ELSE Shr1(crc)

RECURSIVE CrcShift(_, _)
\* k rounds.  (The round's result is bound by a quantifier so that it is
\* computed once, before the next round.)
CrcShift(crc, k) ==
  IF k = 0 THEN crc
  ELSE CHOOSE r \in {CrcShift(c, k - 1) : c \in {CrcRound(crc)}} : TRUE

RECURSIVE CrcUpdate(_, _)
\* For each byte: crc ^= byte, then eight rounds.
CrcUpdate(crc, bytes) ==
  IF bytes = <<>> THEN crc
  ELSE CHOOSE r \in
         {CrcUpdate(c, Tail(bytes)) :
            c \in {CrcShift(Xor32(crc, [hi |-> 0, lo |-> Head(bytes)]), 8)}} : TRUE

\* zlib.crc32 of a byte string: start from 0xFFFFFFFF, invert at the end.
crc32(bytes) ==
  CHOOSE r \in {Xor32(c, Ones32) : c \in {CrcUpdate(Ones32, b) : b \in {bytes}}} :
    TRUE

\* np.int64(identifier) as crc32 reads it: 8 bytes, little-endian, two's
\* complement (identifiers here fit in 32 bits, so bytes 4..7 are the sign).
Int64Bytes(identifier) ==
  LET sign == IF identifier < 0 THEN 255 ELSE 0
  IN  << identifier % 256, (identifier \div 256) % 256,
         (identifier \div 65536) % 256, (identifier \div 16777216) % 256,
         sign, sign, sign, sign >>

\* crc32(np.int64(id)) & 0xffffffff for every identifier of Ids.
Crc32OfId == [i \in Ids |-> crc32(Int64Bytes(i))]

\* test_set_check(identifier, test_ratio):
\*   crc < test_ratio * 2**32, i.e. crc * RatioDen < ratio * 2**32.
\* With crc * RatioDen = q * 65536 + rem (rem < 65536) this is
\* q < ratio * 65536.
test_set_check(identifier, ratio) ==
  LET c == Crc32OfId[identifier]
      q == c.hi * RatioDen + ((c.lo * RatioDen) \div 65536)
  IN  q < ratio * 65536

\* --------------------------------------------------------- hash split
split_train_test_by_id_positional(tbl, ratio) ==
  LET k == (Len(tbl) * ratio) \div RatioDen
  IN  [train |-> SubSeq(tbl, k + 1, Len(tbl)), test |-> SubSeq(tbl, 1, k)]

RECURSIVE Reverse(_)
Reverse(s) == IF s = <<>> THEN <<>> ELSE Append(Reverse(Tail(s)), Head(s))

split_train_test_by_id_reversed(tbl, ratio) ==
  LET in_test_set == [i \in IndexSet(tbl) |->
                        \E k \in 1..Len(tbl) :
                          tbl[k].index = i /\ test_set_check(tbl[k].id, ratio)]
  IN  [train |-> Reverse(LocMask(tbl, [i \in IndexSet(tbl) |-> ~in_test_set[i]])),
       test  |-> Reverse(LocMask(tbl, in_test_set))]

\* split_train_test_by_id(data, test_ratio, id_column): in_test_set is the
\* boolean Series, aligned on the index label, of test_set_check per row.
split_train_test_by_id(tbl, ratio) ==
  LET in_test_set == [i \in IndexSet(tbl) |->
                        \E k \in 1..Len(tbl) :
                          tbl[k].index = i /\ test_set_check(tbl[k].id, ratio)]
  IN  [train |-> LocMask(tbl, [i \in IndexSet(tbl) |-> ~in_test_set[i]]),
       test  |-> LocMask(tbl, in_test_set)]

\* ----------------------------------------------------- stratified split
RECURSIVE SumOver(_, _)
\* The sum of f over the finite set S.
SumOver(f, S) ==
  IF S = {} THEN 0
  ELSE LET x == CHOOSE y \in S : TRUE IN f[x] + SumOver(f, S \ {x})

\* np.unique(y): the strata present in the table.
Classes(tbl) == {tbl[i].income_cat : i \in 1..Len(tbl)}

\* np.bincount(y_indices): rows per stratum.
ClassCounts(tbl) ==
  [c \in Classes(tbl) |->
     Cardinality({i \in 1..Len(tbl) : tbl[i].income_cat = c})]

\* _validate_shuffle_split with a float test_size and no train_size:
\* n_test = ceil(test_size * n_samples), n_train = n_samples - n_test.
NTestFloor(n) == (n * TestSizeNum) \div TestSizeDen

NTest(n) == (n * TestSizeNum + TestSizeDen - 1) \div TestSizeDen
NTrain(n) == n - NTest(n)

ApproximateModeAnyClass(counts, n_draws) ==
  LET classes     == DOMAIN counts
      total       == SumOver(counts, classes)
      floored     == [c \in classes |-> (counts[c] * n_draws) \div total]
      need_to_add == n_draws - SumOver(floored, classes)
      picks       == {S \in SUBSET classes : Cardinality(S) = need_to_add}
  IN  {[c \in classes |-> floored[c] + (IF c \in S THEN 1 ELSE 0)] : S \in picks}

\* sklearn's _approximate_mode(class_counts, n_draws, rng): floor the
\* proportional share of every class, then hand the missing draws to the
\* classes of largest remainder, ties broken by rng: every outcome.
\* (Shares are compared as exact fractions: remainders are scaled by the
\* total.)
ApproximateMode(counts, n_draws) ==
  LET classes     == DOMAIN counts
      total       == SumOver(counts, classes)
      floored     == [c \in classes |-> (counts[c] * n_draws) \div total]
      remainder   == [c \in classes |-> (counts[c] * n_draws) % total]
      need_to_add == n_draws - SumOver(floored, classes)
      picks       == {S \in SUBSET classes :
                        /\ Cardinality(S) = need_to_add
                        /\ \A i \in S : \A j \in classes \ S :
                             remainder[i] >= remainder[j]}
  IN  {[c \in classes |-> floored[c] + (IF c \in S THEN 1 ELSE 0)] : S \in picks}

\* The ValueError cases of StratifiedShuffleSplit.split, from the rows per
\* stratum: an empty train or test side, a stratum of one row, fewer train
\* or test rows than strata.
StratifiedRaisesOn(counts) ==
  LET classes == DOMAIN counts
      n == SumOver(counts, classes)
  IN  \/ n = 0
      \/ NTrain(n) = 0
      \/ \E c \in classes : counts[c] < 2
      \/ NTrain(n) < Cardinality(classes)
      \/ NTest(n) < Cardinality(classes)

StratifiedRaises(tbl) == StratifiedRaisesOn(ClassCounts(tbl))

\* The allotments of one split: n_i = _approximate_mode(class_counts,
\* n_train), then t_i = _approximate_mode(class_counts - n_i, n_test).
Allotments(counts) ==
  LET classes == DOMAIN counts
      n == SumOver(counts, classes)
  IN  UNION {
        {[train |-> n_train_i, test |-> n_test_i] :
           n_test_i \in ApproximateMode(
                          [c \in classes |-> counts[c] - n_train_i[c]], NTest(n))}
        : n_train_i \in ApproximateMode(counts, NTrain(n)) }

\* The label sets S of rows of tbl holding per[c] rows of every stratum c.
RowPicks(tbl, pool, per) ==
  {S \in SUBSET pool :
     \A c \in DOMAIN per :
       Cardinality({i \in S : \E k \in 1..Len(tbl) :
                      tbl[k].index = i /\ tbl[k].income_cat = c}) = per[c]}

\* housing_df.loc[labels]: the rows with these index labels, in that order.
LocLabels(tbl, labels) ==
  [k \in 1..Len(labels) |->
     tbl[CHOOSE p \in 1..Len(tbl) : tbl[p].index = labels[k]]]

\* Every (train_index, test_index) the one split of
\* StratifiedShuffleSplit(n_splits=1, test_size=0.2) can yield: per stratum
\* a permutation gives its first n_i rows to train and the next t_i to test,
\* then each side is permuted.
StratifiedIndices(tbl) ==
  UNION { UNION { UNION {
    {[train_index |-> tr, test_index |-> te] :
       tr \in Orderings(Tr), te \in Orderings(Te)}
    : Te \in RowPicks(tbl, IndexSet(tbl) \ Tr, a.test) }
    : Tr \in RowPicks(tbl, IndexSet(tbl), a.train) }
    : a \in Allotments(ClassCounts(tbl)) }

\* ------------------------------------------------------- split actions
\* The script is straight-line: each split is one call on a table it is
\* handed, so every split action starts from the state before any split.
\* housing_df as loaded: a RangeIndex; the id column is the index
\* (housing_df.reset_index()).
Housing(n) == MkTable([i \in 1..n |-> i - 1], [i \in 1..n |-> 1])

NoSplit ==
  /\ data = <<>>
  /\ test_ratio = 0
  /\ strategy = "none"
  /\ shuffled_indices = <<>>
  /\ train_set = <<>>
  /\ test_set = <<>>

NoAllotment ==
  /\ class_counts = <<>>
  /\ n_i = <<>>
  /\ t_i = <<>>
  /\ allotted = "none"

NoCut ==
  /\ median_income = <<>>
  /\ income_cat = <<>>

\* imputer = SimpleImputer(strategy="median"): nothing learned yet.
NoImputer ==
  /\ statistics_ = <<>>
  /\ imputer_call = "none"
  /\ housing_num = <<>>
  /\ X = <<>>

NoAdder ==
  /\ add_bedrooms_per_room = TRUE
  /\ fit_called = FALSE
  /\ adder_call = "none"
  /\ housing_values = <<>>
  /\ housing_extra_attribs = <<>>

\* What each part of the script leaves alone.
besideSplit   == <<countVars, cutVars, impVars, addVars>>
besideCounts  == <<splitVars, cutVars, impVars, addVars>>
besideCut     == <<splitVars, countVars, impVars, addVars>>
besideImputer == <<splitVars, countVars, cutVars, addVars>>
besideAdder   == <<splitVars, countVars, cutVars, impVars>>

InitSplit == NoSplit /\ NoAllotment /\ NoCut /\ NoImputer /\ NoAdder

\* train_set, test_set = split_train_test(housing_df, ratio)
SplitTrainTest ==
  /\ strategy = "none"
  /\ UNCHANGED besideSplit
  /\ \E n \in 0..MaxRows : \E r \in 0..RatioDen : \E p \in permutation(n) :
       LET res == split_train_test(Housing(n), r, p)
       IN  /\ data' = Housing(n)
           /\ test_ratio' = r
           /\ strategy' = "random"
           /\ shuffled_indices' = p
           /\ train_set' = res.train
           /\ test_set' = res.test

\* train_set, test_set = split_train_test_by_id(housing_with_id, ratio, "id")
SplitTrainTestById ==
  /\ strategy = "none"
  /\ UNCHANGED besideSplit
  /\ \E ids \in SeqsUpTo(Ids, MaxRows) : \E r \in 0..RatioDen :
       LET tbl == MkTable(ids, [i \in 1..Len(ids) |-> 1])
           res == split_train_test_by_id(tbl, r)
       IN  /\ data' = tbl
           /\ test_ratio' = r
           /\ strategy' = "by_id"
           /\ shuffled_indices' = <<>>
           /\ train_set' = res.train
           /\ test_set' = res.test

\* for train_index, test_index in split.split(housing_df, income_cat):
\*     strat_train_set = housing_df.loc[train_index]
\*     strat_test_set = housing_df.loc[test_index]
StratifiedSplit ==
  /\ strategy = "none"
  /\ UNCHANGED besideSplit
  /\ \E cats \in SeqsUpTo(Cats, MaxStratRows) :
       LET tbl == MkTable([i \in 1..Len(cats) |-> i - 1], cats)
       IN  /\ data' = tbl
           /\ test_ratio' = 0
           /\ shuffled_indices' = <<>>
           /\ IF StratifiedRaises(tbl)
              THEN /\ strategy' = "ValueError"
                   /\ train_set' = <<>>
                   /\ test_set' = <<>>
              ELSE \E ix \in StratifiedIndices(tbl) :
                     /\ strategy' = "stratified"
                     /\ train_set' = LocLabels(tbl, ix.train_index)
                     /\ test_set' = LocLabels(tbl, ix.test_index)

NextSplit ==
  \/ SplitTrainTest
  \/ SplitTrainTestById
  \/ StratifiedSplit

SpecSplit == InitSplit /\ [][NextSplit]_vars

\* ------------------------------------- the hash split, rerun on a changed table
\* The table was split by id at some ratio; it is then changed and split
\* again at the same ratio.
InitHash ==
  /\ data = <<>>
  /\ test_ratio \in 0..RatioDen
  /\ strategy = "by_id"
  /\ shuffled_indices = <<>>
  /\ train_set = <<>>
  /\ test_set = <<>>
  /\ NoAllotment /\ NoCut /\ NoImputer /\ NoAdder

Resplit(tbl) ==
  LET res == split_train_test_by_id(tbl, test_ratio)
  IN  /\ data' = tbl
      /\ train_set' = res.train
      /\ test_set' = res.test
      /\ UNCHANGED <<test_ratio, strategy, shuffled_indices>>
      /\ UNCHANGED besideSplit

\* A row is added to the table (a fresh index label), and the table split.
AppendRowAndSplit ==
  /\ Len(data) < MaxHashRows
  /\ \E id \in Ids :
       Resplit(Append(data, [index |-> Len(data), id |-> id, income_cat |-> 1]))

\* Two neighbouring rows change places, and the table is split.
ReorderAndSplit ==
  \E k \in 1..(Len(data) - 1) :
    Resplit([data EXCEPT ![k] = data[k + 1], ![k + 1] = data[k]])

NextHash ==
  \/ AppendRowAndSplit
  \/ ReorderAndSplit

SpecHash == InitHash /\ [][NextHash]_vars

\* ------------------------------------- the stratified split, by strata sizes
\* The same split followed on the sizes of the strata only, so that large
\* strata are within reach.
InitCounts == NoSplit /\ NoAllotment /\ NoCut /\ NoImputer /\ NoAdder

StratifiedAllot ==
  /\ allotted = "none"
  /\ UNCHANGED besideCounts
  /\ \E S \in (SUBSET Strata) \ {{}} : \E counts \in [S -> 1..MaxStratumCount] :
       /\ class_counts' = counts
       /\ IF StratifiedRaisesOn(counts)
          THEN /\ allotted' = "ValueError"
               /\ n_i' = <<>>
               /\ t_i' = <<>>
          ELSE \E a \in Allotments(counts) :
                 /\ allotted' = "done"
                 /\ n_i' = a.train
                 /\ t_i' = a.test

NextCounts == StratifiedAllot

SpecCounts == InitCounts /\ [][NextCounts]_vars

\* ------------------------------------------------------------ income_cat
\* Incomes are counted in halves: 3 stands for 1.5.
\* bins=[0., 1.5, 3.0, 4.5, 6., np.inf]: the finite edges; the last bin has
\* no upper edge that a number can exceed.
bins == <<0, 3, 6, 9, 12>>
labels == <<1, 2, 3, 4, 5>>

\* pd.cut(x, bins, labels) on one value, right=True and include_lowest=False
\* (the defaults): bin k is (bins[k], bins[k+1]], and a value in no bin gets
\* NaN.
cut(x) ==
  LET hits == {k \in 1..Len(labels) :
                 /\ bins[k] < x
                 /\ (k = Len(labels) \/ x <= bins[k + 1])}
  IN  IF hits = {} THEN NaN ELSE labels[CHOOSE k \in hits : TRUE]

Incomes == (-2)..MaxIncome

InitCut == NoSplit /\ NoAllotment /\ NoCut /\ NoImputer /\ NoAdder

\* housing_df["income_cat"] = pd.cut(housing_df["median_income"], ...)
CutIncome ==
  /\ median_income = <<>>
  /\ UNCHANGED besideCut
  /\ \E col \in SeqsUpTo(Incomes, MaxCutRows) \ {<<>>} :
       /\ median_income' = col
       /\ income_cat' = [k \in 1..Len(col) |-> cut(col[k])]

NextCut == CutIncome

SpecCut == InitCut /\ [][NextCut]_vars

\* --------------------------------------------------------------- imputer
\* The imputer's numbers are counted in halves, so that the median of an
\* even number of whole values is a number too: 4 stands for 2.  A column
\* holds whole values (even counts of halves) and NaN.
ImputeValues == {2 * v : v \in 0..MaxImputeValue} \cup {NaN}
ImputeColumns == SeqsUpTo(ImputeValues, MaxImputeRows) \ {<<>>}

\* The values of a column that are not missing, as a set of places.
Present(col) == {k \in 1..Len(col) : col[k] # NaN}

\* How many present values are below v, and how many are at most v.
Below(col, v) == Cardinality({k \in Present(col) : col[k] < v})
AtMost(col, v) == Cardinality({k \in Present(col) : col[k] <= v})

\* The m-th smallest present value (m from 1).
Ranked(col, m) ==
  CHOOSE v \in Range(col) : v # NaN /\ Below(col, v) < m /\ m <= AtMost(col, v)

\* SimpleImputer(strategy="median").fit on one column: the median of the
\* values present (the mean of the two middle ones when they are even in
\* number), NaN when none is.
Median(col) ==
  LET n == Cardinality(Present(col))
  IN  IF n = 0 THEN NaN
      ELSE IF n % 2 = 1 THEN Ranked(col, (n + 1) \div 2)
      ELSE (Ranked(col, n \div 2) + Ranked(col, (n \div 2) + 1)) \div 2

\* fill: the column with every missing value replaced by v.
Filled(col, v) == [k \in 1..Len(col) |-> IF col[k] = NaN THEN v ELSE col[k]]

imputer_transform_refit(stats, col) ==
  [statistics_ |-> <<Median(col)>>,
   X |-> IF Median(col) = NaN THEN <<>> ELSE Filled(col, Median(col))]

\* imputer.transform(col) of a fitted imputer: missing values are replaced
\* by the learned statistic; a column whose statistic is NaN (all missing at
\* fit) is dropped from the output.  The imputer itself is not changed.
imputer_transform(stats, col) ==
  [statistics_ |-> stats,
   X |-> IF stats[1] = NaN THEN <<>> ELSE Filled(col, stats[1])]

InitImputer == NoSplit /\ NoAllotment /\ NoCut /\ NoImputer /\ NoAdder

\* imputer.fit(housing_num)
ImputerFit ==
  /\ UNCHANGED besideImputer
  /\ \E col \in ImputeColumns :
       /\ statistics_' = <<Median(col)>>
       /\ imputer_call' = "fit"
       /\ housing_num' = col
       /\ X' = X

\* X = imputer.transform(housing_num); NotFittedError before any fit.
ImputerTransform ==
  /\ UNCHANGED besideImputer
  /\ \E col \in ImputeColumns :
       /\ housing_num' = col
       /\ IF statistics_ = <<>>
          THEN /\ imputer_call' = "NotFittedError"
               /\ UNCHANGED <<statistics_, X>>
          ELSE LET res == imputer_transform(statistics_, col)
               IN  /\ imputer_call' = "transform"
                   /\ statistics_' = res.statistics_
                   /\ X' = res.X

\* The pipeline's fit_transform: fit on the table, then transform it.
ImputerFitTransform ==
  /\ UNCHANGED besideImputer
  /\ \E col \in ImputeColumns :
       LET res == imputer_transform(<<Median(col)>>, col)
       IN  /\ housing_num' = col
           /\ imputer_call' = "fit_transform"
           /\ statistics_' = res.statistics_
           /\ X' = res.X

NextImputer ==
  \/ ImputerFit
  \/ ImputerTransform
  \/ ImputerFitTransform

SpecImputer == InitImputer /\ [][NextImputer]_vars

\* ------------------------------------------------- CombinedAttributesAdder
\* A quotient is the fraction [n, d] in lowest terms; inf is 1/0 and NaN is
\* 0/0.
RECURSIVE Gcd(_, _)
Gcd(a, b) == IF b = 0 THEN a ELSE Gcd(b, a % b)

\* a / b on float64 values (none negative): x / 0 is inf, 0 / 0 is NaN, and
\* NaN on either side gives NaN.  numpy warns and goes on.
Div(a, b) ==
  IF a = NaN \/ b = NaN THEN [n |-> 0, d |-> 0]
  ELSE IF b = 0 THEN (IF a = 0 THEN [n |-> 0, d |-> 0] ELSE [n |-> 1, d |-> 0])
  ELSE [n |-> a \div Gcd(a, b), d |-> b \div Gcd(a, b)]

\* a / b on an object array is Python's float division, which raises
\* ZeroDivisionError when b is 0 (also for a NaN numerator).
Raises(dtype, b) == dtype = "object" /\ b = 0

\* What a row holds besides the four counts: longitude, latitude,
\* housing_median_age before them, median_income after them, and
\* ocean_proximity, a string.
Location == <<-122, 37, 41>>
Income == <<8>>
ocean_proximity == "INLAND"

TotalRooms == {0, 6}
TotalBedrooms == {NaN, 2}
Population == {0, 3}
Households == {0, 2}

\* The numeric columns of a row, in the order of the csv.
NumericRows ==
  {Location \o <<r, b, p, h>> \o Income :
     r \in TotalRooms, b \in TotalBedrooms, p \in Population, h \in Households}

\* An array the adder is handed: the float64 array of the numeric columns
\* (what the imputer hands on in num_pipeline), or housing.values, which
\* holds ocean_proximity too and so is an object array of Python floats and
\* strings.
Arrays ==
  UNION {
    {[dtype |-> "float64", rows |-> rows],
     [dtype |-> "object",
      rows |-> [k \in 1..Len(rows) |-> Append(rows[k], ocean_proximity)]]}
    : rows \in SeqsUpTo(NumericRows, MaxAdderRows) \ {<<>>} }

\* The DataFrame housing: its count columns are float64 columns of their
\* own, whatever else the frame holds.
Frames ==
  {[dtype |-> "frame",
    rows |-> [k \in 1..Len(rows) |-> Append(rows[k], ocean_proximity)]]
   : rows \in SeqsUpTo(NumericRows, MaxAdderRows) \ {<<>>} }

\* The row's value in the column of this 0-based index.
Col(row, ix) == row[ix + 1]

transform_swapped(add_bedrooms, arr) ==
  [raised |-> \E k \in 1..Len(arr.rows) :
                \/ Raises(arr.dtype, Col(arr.rows[k], households_ix))
                \/ add_bedrooms /\ Raises(arr.dtype, Col(arr.rows[k], rooms_ix)),
   out |-> [k \in 1..Len(arr.rows) |->
              LET row == arr.rows[k]
                  rooms_per_household ==
                    Div(Col(row, rooms_ix), Col(row, households_ix))
                  population_per_household ==
                    Div(Col(row, population_ix), Col(row, households_ix))
                  bedrooms_per_room ==
                    Div(Col(row, bedroom_ix), Col(row, rooms_ix))
              IN  IF add_bedrooms
                  THEN row \o <<population_per_household, rooms_per_household,
                                bedrooms_per_room>>
                  ELSE row \o <<population_per_household, rooms_per_household>>]]

\* CombinedAttributesAdder.transform(X): whether a division raised, and
\* else np.c_[X, rooms_per_household, population_per_household
\* (, bedrooms_per_room)].
transform(add_bedrooms, arr) ==
  [raised |-> \E k \in 1..Len(arr.rows) :
                \/ Raises(arr.dtype, Col(arr.rows[k], households_ix))
                \/ add_bedrooms /\ Raises(arr.dtype, Col(arr.rows[k], rooms_ix)),
   out |-> [k \in 1..Len(arr.rows) |->
              LET row == arr.rows[k]
                  rooms_per_household ==
                    Div(Col(row, rooms_ix), Col(row, households_ix))
                  population_per_household ==
                    Div(Col(row, population_ix), Col(row, households_ix))
                  bedrooms_per_room ==
                    Div(Col(row, bedroom_ix), Col(row, rooms_ix))
              IN  IF add_bedrooms
                  THEN row \o <<rooms_per_household, population_per_household,
                                bedrooms_per_room>>
                  ELSE row \o <<rooms_per_household, population_per_household>>]]

\* attr_adder = CombinedAttributesAdder(add_bedrooms_per_room=...)
InitAdder ==
  /\ NoSplit /\ NoAllotment /\ NoCut /\ NoImputer
  /\ add_bedrooms_per_room \in BOOLEAN
  /\ fit_called = FALSE
  /\ adder_call = "none"
  /\ housing_values = <<>>
  /\ housing_extra_attribs = <<>>

\* attr_adder.fit(X): returns self, nothing else to do.
AdderFit ==
  /\ adder_call = "none"
  /\ fit_called' = TRUE
  /\ UNCHANGED <<add_bedrooms_per_room, adder_call, housing_values,
                 housing_extra_attribs>>
  /\ UNCHANGED besideAdder

\* housing_extra_attribs = attr_adder.transform(array)
AdderTransform ==
  /\ adder_call = "none"
  /\ UNCHANGED besideAdder
  /\ UNCHANGED <<add_bedrooms_per_room, fit_called>>
  /\ \E arr \in Arrays :
       LET res == transform(add_bedrooms_per_room, arr)
       IN  /\ housing_values' = arr
           /\ IF res.raised
              THEN /\ adder_call' = "ZeroDivisionError"
                   /\ housing_extra_attribs' = <<>>
              ELSE /\ adder_call' = "transform"
                   /\ housing_extra_attribs' = res.out

\* housing["rooms_per_household"] = housing["total_rooms"] / housing["households"]
\* housing["bedrooms_per_room"] = housing["total_bedrooms"] / housing["total_rooms"]
\* housing["population_per_household"] = housing["population"] / housing["households"]
\* on the DataFrame's own float64 columns, appended in this order; a zero
\* denominator gives inf or NaN.
AttributeCombinations ==
  /\ adder_call = "none"
  /\ UNCHANGED besideAdder
  /\ UNCHANGED <<add_bedrooms_per_room, fit_called>>
  /\ \E arr \in Frames :
       /\ housing_values' = arr
       /\ adder_call' = "columns"
       /\ housing_extra_attribs' =
            [k \in 1..Len(arr.rows) |->
               LET row == arr.rows[k]
               IN  row \o << Div(Col(row, rooms_ix), Col(row, households_ix)),
                             Div(Col(row, bedroom_ix), Col(row, rooms_ix)),
                             Div(Col(row, population_ix), Col(row, households_ix)) >>]

NextAdder ==
  \/ AdderFit
  \/ AdderTransform
  \/ AttributeCombinations

SpecAdder == InitAdder /\ [][NextAdder]_vars

\* ======================================================= properties
Abs(x) == IF x < 0 THEN -x ELSE x

Split == strategy \in {"random", "by_id", "stratified"}

\* The place of the row with this index label in the source table.
PlaceIn(tbl, row) == CHOOSE p \in 1..Len(tbl) : tbl[p].index = row.index

\* The rows of s come in the order they have in the source table.
InSourceOrder(s) ==
  \A i \in 1..Len(s) : \A j \in 1..Len(s) :
    i < j => PlaceIn(data, s[i]) < PlaceIn(data, s[j])

\* The index labels of a table, in its row order.
Labels(tbl) == [k \in 1..Len(tbl) |-> tbl[k].index]

\* C1: whenever one of the three splits has returned a pair, the row-index
\* sets of train and test are disjoint, their union is the source's
\* row-index set, no row is repeated, and every row is a row of the source.
SplitIsPartition ==
  Split =>
    /\ IndexSet(train_set) \cap IndexSet(test_set) = {}
    /\ IndexSet(train_set) \cup IndexSet(test_set) = IndexSet(data)
    /\ Len(train_set) + Len(test_set) = Len(data)
    /\ Range(train_set) \cup Range(test_set) = Range(data)

\* A stratified split of a table of two strata with rows on both sides.
PartitionWitness ==
  /\ strategy = "stratified"
  /\ Cardinality(Classes(data)) = 2
  /\ Len(test_set) = 2
  /\ Len(train_set) = 4

\* C2: when a table split by id is reordered or extended and split again at
\* the same ratio, every row lands on the side where the rows of the same
\* identifier were before.
HashSplitStable ==
  [][(strategy = "by_id" /\ strategy' = "by_id" /\ test_ratio' = test_ratio) =>
       \A i \in 1..Len(data) : \A j \in 1..Len(data') :
         data[i].id = data'[j].id =>
           /\ (data[i].index \in IndexSet(test_set))
                <=> (data'[j].index \in IndexSet(test_set'))
           /\ (data[i].index \in IndexSet(train_set))
                <=> (data'[j].index \in IndexSet(train_set'))]_vars

\* A reordered table of three rows, two of them with one identifier, with
\* rows on both sides.
HashStableWitness ==
  /\ strategy = "by_id"
  /\ Len(data) = 3
  /\ data[1].index > data[2].index
  /\ \E i \in 1..3 : \E j \in 1..3 : i # j /\ data[i].id = data[j].id
  /\ train_set # <<>>
  /\ test_set # <<>>

\* C3: split_train_test draws a permutation of the N row positions; the
\* test set is the rows at its first floor(N * ratio) entries and the train
\* set the rows at the remaining N - floor(N * ratio), in that order.
RandomSplitTakesPrefix ==
  strategy = "random" =>
    LET N == Len(data)
        k == (N * test_ratio) \div RatioDen
    IN  /\ Len(shuffled_indices) = N
        /\ Range(shuffled_indices) = 0..(N - 1)
        /\ Len(test_set) = k
        /\ Len(train_set) = N - k
        /\ \A m \in 1..k : test_set[m] = data[shuffled_indices[m] + 1]
        /\ \A m \in 1..(N - k) : train_set[m] = data[shuffled_indices[k + m] + 1]

\* A random split whose N * ratio is not whole and whose permutation moves
\* rows.
RandomSplitWitness ==
  /\ strategy = "random"
  /\ Len(data) = 4
  /\ (Len(data) * test_ratio) % RatioDen # 0
  /\ Len(test_set) = 1
  /\ shuffled_indices[1] = 3

\* C4 as claimed: after any of the three splits the test set holds
\* floor(ratio * N) rows (the stratified split's ratio is its test_size).
TestSizeIsFloorEverywhere ==
  /\ strategy \in {"random", "by_id"} =>
       Len(test_set) = (Len(data) * test_ratio) \div RatioDen
  /\ strategy = "stratified" =>
       Len(test_set) = (Len(data) * TestSizeNum) \div TestSizeDen

\* C4 as amended: the random split's test set holds floor(ratio * N) rows;
\* the stratified split's holds ceil(test_size * N); the hash split's holds
\* the rows whose checksum is below ratio * 2^32, however many they are.
TestSizeByStrategy ==
  /\ strategy = "random" =>
       Len(test_set) = (Len(data) * test_ratio) \div RatioDen
  /\ strategy = "stratified" =>
       /\ Len(test_set) * TestSizeDen >= Len(data) * TestSizeNum
       /\ (Len(test_set) - 1) * TestSizeDen < Len(data) * TestSizeNum
  /\ strategy = "by_id" =>
       Len(test_set) =
         Cardinality({p \in 1..Len(data) : test_set_check(data[p].id, test_ratio)})

\* A stratified split of six rows: two test rows, where the floor is one.
TestSizeWitness ==
  /\ strategy = "stratified"
  /\ Len(data) = 6
  /\ Len(test_set) = 2

\* C5 as claimed: after split_train_test and after split_train_test_by_id
\* the rows of each side come in the order they have in the source.
SplitKeepsSourceOrder ==
  strategy \in {"random", "by_id"} =>
    InSourceOrder(train_set) /\ InSourceOrder(test_set)

\* C5 as amended: split_train_test_by_id keeps the source order on both
\* sides; split_train_test returns each side in the order of the permutation
\* it drew.
SplitOrderByStrategy ==
  /\ strategy = "by_id" => InSourceOrder(train_set) /\ InSourceOrder(test_set)
  /\ strategy = "random" =>
       Labels(test_set) \o Labels(train_set) = shuffled_indices

\* A hash split with two rows on each side.
SplitOrderWitness ==
  /\ strategy = "by_id"
  /\ Len(train_set) = 2
  /\ Len(test_set) = 2

\* C7 as claimed: after a stratified split every stratum's number of test
\* rows is within 1 of test_size times its number of rows in the source.
StratumShareWithinOne ==
  allotted = "done" =>
    \A c \in DOMAIN class_counts :
      Abs(t_i[c] * TestSizeDen - class_counts[c] * TestSizeNum) <= TestSizeDen

\* C7 as amended: every stratum's number of test rows is less than 1 from
\* its count times n_test / N, where n_test = ceil(test_size * N) is the
\* size of the test set, and so less than 2 from test_size times its count.
StratumShareNearRatio ==
  allotted = "done" =>
    LET N == SumOver(class_counts, DOMAIN class_counts)
        n_test == (N * TestSizeNum + TestSizeDen - 1) \div TestSizeDen
    IN  \A c \in DOMAIN class_counts :
          /\ Abs(t_i[c] * N - class_counts[c] * n_test) < N
          /\ Abs(t_i[c] * TestSizeDen - class_counts[c] * TestSizeNum)
               < 2 * TestSizeDen

\* A split where a stratum's test rows are more than 1 from test_size times
\* its count.
StratumShareWitness ==
  /\ allotted = "done"
  /\ \E c \in DOMAIN class_counts :
       Abs(t_i[c] * TestSizeDen - class_counts[c] * TestSizeNum) > TestSizeDen

\* C6 as claimed: every median_income value, 0 and negative values
\* included, gets exactly one of the labels 1..5, never no label.
EveryIncomeLabelled ==
  \A k \in 1..Len(income_cat) : income_cat[k] \in 1..5

\* C8: once fitted, a transform leaves the learned median as it was and
\* returns the column with its missing values replaced by that median, not
\* by the median of the column being transformed.
TransformReusesFit ==
  [][imputer_call' = "transform" =>
       /\ statistics_ # <<>>
       /\ statistics_' = statistics_
       /\ statistics_[1] # NaN =>
            /\ Len(X') = Len(housing_num')
            /\ \A k \in 1..Len(X') :
                 X'[k] = IF housing_num'[k] = NaN THEN statistics_[1]
                         ELSE housing_num'[k]]_vars

\* Fitted to a median of 2 (on [1, 3]), the imputer has transformed
\* [NaN, 3], whose own median is 3, to [2, 3].
TransformWitness ==
  /\ imputer_call = "transform"
  /\ statistics_ = <<4>>
  /\ housing_num = <<NaN, 6>>
  /\ X = <<4, 6>>

\* C9 as claimed: when a row's households (or total_rooms) value is 0,
\* CombinedAttributesAdder.transform and the script's ratio columns signal
\* no error: they return a result whose quotients by that zero are inf or
\* NaN.
ZeroDenominatorNeverRaises ==
  adder_call # "none" =>
    /\ adder_call # "ZeroDivisionError"
    /\ \A k \in 1..Len(housing_values.rows) :
         LET row == housing_values.rows[k]
         IN  Col(row, households_ix) = 0 =>
               /\ housing_extra_attribs[k][Len(row) + 1].d = 0
               /\ housing_extra_attribs[k][Len(row) +
                    (IF adder_call = "columns" THEN 3 ELSE 2)].d = 0

\* C10: transform returns the rows of its input in their order, each with
\* its columns unchanged and followed by rooms_per_household (column 3 /
\* column 6), population_per_household (column 5 / column 6) and, only when
\* add_bedrooms_per_room is set, bedrooms_per_room (column 4 / column 3);
\* this is so whether or not fit was called before.
TransformAppendsColumns ==
  adder_call = "transform" =>
    LET rows == housing_values.rows
        out == housing_extra_attribs
    IN  /\ Len(out) = Len(rows)
        /\ \A k \in 1..Len(rows) :
             LET w == Len(rows[k])
             IN  /\ Len(out[k]) = w + (IF add_bedrooms_per_room THEN 3 ELSE 2)
                 /\ SubSeq(out[k], 1, w) = rows[k]
                 /\ out[k][w + 1] = Div(rows[k][4], rows[k][7])
                 /\ out[k][w + 2] = Div(rows[k][6], rows[k][7])
                 /\ add_bedrooms_per_room => out[k][w + 3] = Div(rows[k][5], rows[k][4])

\* After fit, a transform without bedrooms_per_room of two different rows
\* whose two quotients differ.
TransformWitnessAdder ==
  /\ adder_call = "transform"
  /\ fit_called
  /\ ~add_bedrooms_per_room
  /\ housing_values.dtype = "float64"
  /\ Len(housing_values.rows) = 2
  /\ housing_values.rows[1] # housing_values.rows[2]
  /\ housing_extra_attribs[1][9] = [n |-> 3, d |-> 1]
  /\ housing_extra_attribs[1][10] = [n |-> 3, d |-> 2]

====
